---- MODULE Spec2Model ----
(***************************************************************************)
(* turinglib: a single-tape Turing machine interpreter                     *)
(* (src/turinglib/core.py).  The model covers TapeVar/BLANK,               *)
(* ActionPrimitive, Action, State.update, StateMachine.__init__,           *)
(* StateMachine.step and StateMachine.run.                                 *)
(*                                                                         *)
(* Python exceptions are modelled as outcomes: an operator that models a   *)
(* method returns a record whose field "raised" names the exception (or    *)
(* NoExc) next to the state the method leaves behind.  __init__ stores the *)
(* caller's list without copying it (self.tape = input_tape): machines     *)
(* built on one list object see each other's writes and growth, which      *)
(* tape_obj records.  The verbose flag                                     *)
(* only drives print calls and is left out; the print in run that is not   *)
(* guarded by verbose evaluates "_ + 1" and is modelled.                   *)
(***************************************************************************)
EXTENDS Integers, Sequences, FiniteSets, TLC

VARIABLES
    transitions,  \* State.transitions of every State object: a dict per state
    tms,          \* the StateMachine objects: tape, head, tape_begin, current, ...
    tape_obj,     \* per machine: the list object that self.tape refers to
    last          \* per machine: the outcome of the most recent call on it

vars == <<transitions, tms, tape_obj, last>>

(***************************************************************************)
(* Bounds of the model                                                     *)
(***************************************************************************)
\* the safety limit of the growth loops; the program uses 10**6
TapeCap == 4
\* longest input_tape handed to the constructor
MaxTapeLen == 2
\* largest |displacement| of an action wrapped in an Enum member
MaxDisp == 2
\* largest max_steps handed to run
MaxSteps == 2

(***************************************************************************)
(* TapeVar, BLANK                                                          *)
(***************************************************************************)
BLANK == "_"

\* the tape alphabet of the general machines
Symbols == {BLANK, "1"}

(***************************************************************************)
(* ActionPrimitive and Action                                              *)
(***************************************************************************)
\* ActionPrimitive(notation, op) with op = lambda h: h + d
ActionPrimitive(notation, d) == [notation |-> notation, d |-> d]

perform(ap, head) == head + ap.d

\* a member of an Enum class: the ActionPrimitive sits in its .value
EnumMember(ap) == [value |-> ap]

\* class Action(Enum)
ActionR == EnumMember(ActionPrimitive("R", 1))
ActionL == EnumMember(ActionPrimitive("L", -1))
ActionN == EnumMember(ActionPrimitive("N", 0))

\* the bare primitive of test_custom_action_with_large_move; the R2 of
\* example_custom_action.py is used in a table the same way
R3 == ActionPrimitive("R3", 3)

\* members of a user-written Enum class with arbitrary displacements
WrappedActions == { EnumMember(ActionPrimitive("D", d)) : d \in (-MaxDisp)..MaxDisp }

\* what a transition table may hold in its action slot
Actions == {ActionR, ActionL, ActionN} \cup
           { a \in WrappedActions : a.value.d \notin {-1, 0, 1} } \cup {R3}

(***************************************************************************)
(* State                                                                   *)
(***************************************************************************)
States == {"q0", "q1"}
None == "None"
NoExc == "none"

Entry(next_state, new_tv, action) ==
    [next_state |-> next_state, new_tv |-> new_tv, action |-> action]

\* variant of update: the table is indexed (self.transitions[tv]) instead of
\* asked with .get, so that only the implicit blank halt is a clean halt
updateIndexes(self_transitions, tv, head, implicit_blank_halt) ==
    IF implicit_blank_halt /\ tv = BLANK /\ BLANK \notin DOMAIN self_transitions
    THEN [raised |-> NoExc, next_state |-> None, new_tv |-> tv, new_head |-> head]
    ELSE IF tv \notin DOMAIN self_transitions
    THEN [raised |-> "KeyError", next_state |-> None, new_tv |-> tv, new_head |-> head]
    ELSE LET result == self_transitions[tv] IN
         IF "value" \in DOMAIN result.action
         THEN [raised |-> NoExc, next_state |-> result.next_state,
               new_tv |-> result.new_tv,
               new_head |-> perform(result.action.value, head)]
         ELSE [raised |-> "AttributeError", next_state |-> None,
               new_tv |-> tv, new_head |-> head]

\* State.update(self, tv, head, implicit_blank_halt); self_transitions is
\* self.transitions, a dict: a function whose DOMAIN is the set of keys
update(self_transitions, tv, head, implicit_blank_halt) ==
    IF implicit_blank_halt /\ tv = BLANK /\ BLANK \notin DOMAIN self_transitions
    THEN [raised |-> NoExc, next_state |-> None, new_tv |-> tv, new_head |-> head]
    ELSE IF tv \notin DOMAIN self_transitions
    THEN [raised |-> NoExc, next_state |-> None, new_tv |-> tv, new_head |-> head]
    ELSE LET result == self_transitions[tv] IN
         IF "value" \in DOMAIN result.action
         THEN [raised |-> NoExc, next_state |-> result.next_state,
               new_tv |-> result.new_tv,
               new_head |-> perform(result.action.value, head)]
         ELSE [raised |-> "AttributeError", next_state |-> None,
               new_tv |-> tv, new_head |-> head]

(***************************************************************************)
(* StateMachine                                                            *)
(***************************************************************************)
\* StateMachine.__init__; the asserts are the precondition ValidConstruction
StateMachine(start, input_tape, start_point, implicit_blank_halt) ==
    [tape |-> input_tape, implicit_blank_halt |-> implicit_blank_halt,
     current |-> start, head |-> start_point, tape_begin |-> 0]

\* variant of the first assert: the position just past the list is accepted
ValidConstructionUpToEnd(input_tape, start_point) ==
    0 <= start_point /\ start_point <= Len(input_tape)

ValidConstruction(input_tape, start_point) ==
    0 <= start_point /\ start_point < Len(input_tape)

\* variant of the right-growth loop: an "if" in place of the "while"
ExtendRightOnce(tape, tape_begin, new_head) ==
    IF new_head - tape_begin >= Len(tape)
    THEN IF Len(tape) > TapeCap
         THEN [raised |-> "MemoryError", tape |-> tape, tape_begin |-> tape_begin]
         ELSE [raised |-> NoExc, tape |-> Append(tape, BLANK), tape_begin |-> tape_begin]
    ELSE [raised |-> NoExc, tape |-> tape, tape_begin |-> tape_begin]

\* variant of the right-growth loop: the loop test is off by one
RECURSIVE ExtendRightOneMore(_, _, _)
ExtendRightOneMore(tape, tape_begin, new_head) ==
    IF new_head - tape_begin + 1 >= Len(tape)
    THEN IF Len(tape) > TapeCap
         THEN [raised |-> "MemoryError", tape |-> tape, tape_begin |-> tape_begin]
         ELSE ExtendRightOneMore(Append(tape, BLANK), tape_begin, new_head)
    ELSE [raised |-> NoExc, tape |-> tape, tape_begin |-> tape_begin]

\* "while new_head - self.tape_begin >= len(self.tape)"
RECURSIVE ExtendRight(_, _, _)
ExtendRight(tape, tape_begin, new_head) ==
    IF new_head - tape_begin >= Len(tape)
    THEN IF Len(tape) > TapeCap
         THEN [raised |-> "MemoryError", tape |-> tape, tape_begin |-> tape_begin]
         ELSE ExtendRight(Append(tape, BLANK), tape_begin, new_head)
    ELSE [raised |-> NoExc, tape |-> tape, tape_begin |-> tape_begin]

\* variant of the left-growth loop: the blank goes to the wrong end of the list
RECURSIVE ExtendLeftAppends(_, _, _)
ExtendLeftAppends(tape, tape_begin, new_head) ==
    IF tape_begin > new_head
    THEN IF Len(tape) > TapeCap
         THEN [raised |-> "MemoryError", tape |-> tape, tape_begin |-> tape_begin]
         ELSE ExtendLeftAppends(Append(tape, BLANK), tape_begin - 1, new_head)
    ELSE [raised |-> NoExc, tape |-> tape, tape_begin |-> tape_begin]

\* variant of the left-growth loop: tape_begin is not decremented
RECURSIVE ExtendLeftKeepsBegin(_, _, _)
ExtendLeftKeepsBegin(tape, tape_begin, new_head) ==
    IF tape_begin > new_head
    THEN IF Len(tape) > TapeCap
         THEN [raised |-> "MemoryError", tape |-> tape, tape_begin |-> tape_begin]
         ELSE ExtendLeftKeepsBegin(<<BLANK>> \o tape, tape_begin, new_head)
    ELSE [raised |-> NoExc, tape |-> tape, tape_begin |-> tape_begin]

\* "while self.tape_begin > new_head"
RECURSIVE ExtendLeft(_, _, _)
ExtendLeft(tape, tape_begin, new_head) ==
    IF tape_begin > new_head
    THEN IF Len(tape) > TapeCap
         THEN [raised |-> "MemoryError", tape |-> tape, tape_begin |-> tape_begin]
         ELSE ExtendLeft(<<BLANK>> \o tape, tape_begin - 1, new_head)
    ELSE [raised |-> NoExc, tape |-> tape, tape_begin |-> tape_begin]

\* variant of the halting branch: the cell under the head is blanked
HaltBranchBlanks(self) ==
    [tm |-> [self EXCEPT !.tape[self.head - self.tape_begin + 1] = BLANK],
     raised |-> NoExc, ret |-> FALSE]

\* variant of the halting branch: current is set to None
HaltBranchSetsNone(self) ==
    [tm |-> [self EXCEPT !.current = None], raised |-> NoExc, ret |-> FALSE]

\* the halting branch of step: "return False" and nothing else
HaltBranch(self) == [tm |-> self, raised |-> NoExc, ret |-> FALSE]

\* StateMachine.step(self): the machine it leaves behind, the exception it
\* raised (or NoExc) and the value it returned
step(self, table) ==
    LET index == self.head - self.tape_begin
        tape_value == self.tape[index + 1]
        u == update(table[self.current], tape_value, self.head,
                    self.implicit_blank_halt)
    IN  IF self.current = None   \* None has no attribute "update"
        THEN [tm |-> self, raised |-> "AttributeError", ret |-> FALSE]
        ELSE IF u.raised # NoExc
        THEN [tm |-> self, raised |-> u.raised, ret |-> FALSE]
        ELSE IF u.next_state = None
        THEN HaltBranch(self)
        ELSE LET written == [self.tape EXCEPT ![index + 1] = u.new_tv]
                 r == ExtendRight(written, self.tape_begin, u.new_head)
             IN  IF r.raised # NoExc
                 THEN [tm |-> [self EXCEPT !.tape = r.tape],
                       raised |-> r.raised, ret |-> FALSE]
                 ELSE LET l == ExtendLeft(r.tape, r.tape_begin, u.new_head) IN
                      IF l.raised # NoExc
                      THEN [tm |-> [self EXCEPT !.tape = l.tape,
                                                !.tape_begin = l.tape_begin],
                            raised |-> l.raised, ret |-> FALSE]
                      ELSE [tm |-> [self EXCEPT !.tape = l.tape,
                                                !.tape_begin = l.tape_begin,
                                                !.head = u.new_head,
                                                !.current = u.next_state],
                            raised |-> NoExc, ret |-> TRUE]

\* variant of the loop of run: range(max_steps + 1)
RECURSIVE RunLoopOneMore(_, _, _, _)
RunLoopOneMore(self, table, i, max_steps) ==
    IF i > max_steps
    THEN [tm |-> self, raised |-> NoExc, steps |-> i, halted |-> FALSE]
    ELSE LET s == step(self, table) IN
         IF s.raised # NoExc
         THEN [tm |-> s.tm, raised |-> s.raised, steps |-> i + 1, halted |-> FALSE]
         ELSE IF ~s.ret
         THEN [tm |-> s.tm, raised |-> NoExc, steps |-> i + 1, halted |-> TRUE]
         ELSE RunLoopOneMore(s.tm, table, i + 1, max_steps)

\* "for _ in range(max_steps): if not self.step(): break", i iterations done
RECURSIVE RunLoop(_, _, _, _)
RunLoop(self, table, i, max_steps) ==
    IF i >= max_steps
    THEN [tm |-> self, raised |-> NoExc, steps |-> i, halted |-> FALSE]
    ELSE LET s == step(self, table) IN
         IF s.raised # NoExc
         THEN [tm |-> s.tm, raised |-> s.raised, steps |-> i + 1, halted |-> FALSE]
         ELSE IF ~s.ret
         THEN [tm |-> s.tm, raised |-> NoExc, steps |-> i + 1, halted |-> TRUE]
         ELSE RunLoop(s.tm, table, i + 1, max_steps)

\* StateMachine.run(self, max_steps): the loop, then the print of "_ + 1",
\* which reads a loop variable that an empty range never bound
run(self, table, max_steps) ==
    LET loop == RunLoop(self, table, 0, max_steps) IN
    IF loop.raised # NoExc THEN loop
    ELSE IF loop.steps = 0 THEN [loop EXCEPT !.raised = "UnboundLocalError"]
    ELSE loop

(***************************************************************************)
(* The outcome of a call, as its caller sees it                            *)
(***************************************************************************)
NoCall == [op |-> "none", max_steps |-> 0, raised |-> NoExc, ret |-> "none",
           steps |-> 0, halted |-> FALSE]

StepCall(s) ==
    [op |-> "step", max_steps |-> 0, raised |-> s.raised,
     ret |-> IF s.raised # NoExc THEN "none" ELSE IF s.ret THEN "True" ELSE "False",
     steps |-> 0, halted |-> FALSE]

RunCall(r, max_steps) ==
    [op |-> "run", max_steps |-> max_steps, raised |-> r.raised,
     ret |-> IF r.raised # NoExc THEN "none" ELSE "tape_current",
     steps |-> r.steps, halted |-> r.halted]

(***************************************************************************)
(* Initial states: tables wired up, machines constructed                   *)
(***************************************************************************)
InputTapes == UNION { [1..n -> Symbols] : n \in 1..MaxTapeLen }

Entries == { Entry(q, w, a) : q \in States, w \in Symbols, a \in Actions }

PartialFns(K, V) == UNION { [D -> V] : D \in SUBSET K }

\* the tables of a start state q0: every dict over the alphabet
Rows == PartialFns(Symbols, Entries)

\* the tables of the second state: the empty table of a HALT state, and
\* a table that sends the machine back to q0 on every symbol
BackEntries == { Entry("q0", "1", ActionL) }
BackRows == { << >> } \cup { [tv \in Symbols |-> e] : e \in BackEntries }

Init ==
    /\ transitions \in { [q \in States |-> IF q = "q0" THEN r0 ELSE r1] :
                            r0 \in Rows, r1 \in BackRows }
    /\ \E input_tape \in InputTapes, ibh \in BOOLEAN :
         \E start_point \in 0..(Len(input_tape) - 1) :
            /\ ValidConstruction(input_tape, start_point)
            /\ tms = [i \in {1} |-> StateMachine("q0", input_tape, start_point, ibh)]
    /\ tape_obj = [i \in {1} |-> 1]
    /\ last = [i \in {1} |-> NoCall]

\* the same tables, the machine started on a list of one cell: the longer
\* tapes are those the machine grows itself
InitRun ==
    /\ transitions \in { [q \in States |-> IF q = "q0" THEN r0 ELSE r1] :
                            r0 \in Rows, r1 \in BackRows }
    /\ \E input_tape \in [1..1 -> Symbols], ibh \in BOOLEAN :
          /\ ValidConstruction(input_tape, 0)
          /\ tms = [i \in {1} |-> StateMachine("q0", input_tape, 0, ibh)]
    /\ tape_obj = [i \in {1} |-> 1]
    /\ last = [i \in {1} |-> NoCall]

\* two machines that share the State objects: one-cell tapes, a start
\* state that stays, rewrites or hands over to a state without transitions;
\* the caller built them on two lists, or on one and the same list
PairEntries == { Entry("q0", "1", ActionN), Entry("q1", BLANK, ActionR) }

InitPair ==
    /\ transitions \in { [q \in States |-> IF q = "q0" THEN r0 ELSE << >>] :
                            r0 \in PartialFns(Symbols, PairEntries) }
    /\ tms \in [ {1, 2} -> { StateMachine("q0", input_tape, 0, ibh) :
                                input_tape \in [1..1 -> Symbols], ibh \in BOOLEAN } ]
    /\ tape_obj \in { [i \in {1, 2} |-> i], [i \in {1, 2} |-> 1] }
    /\ tape_obj[1] = tape_obj[2] => tms[1].tape = tms[2].tape
    /\ last = [i \in {1, 2} |-> NoCall]

(***************************************************************************)
(* The machines of the test suite and of the examples                      *)
(***************************************************************************)
zero == "0"
one == "1"

\* a dict display {k1: v1, k2: v2, ...}: for equal keys the last item wins
DictDisplay(items) ==
    [k \in { items[n][1] : n \in DOMAIN items } |->
        items[CHOOSE n \in DOMAIN items :
                 /\ items[n][1] = k
                 /\ \A m \in DOMAIN items : items[m][1] = k => m <= n][2]]

\* test_machine_right_growth
RightGrowthTable ==
    [q0 |-> DictDisplay(<< <<zero, Entry("HALT", one, ActionR)>> >>),
     HALT |-> << >>]

\* test_machine_left_growth
LeftGrowthTable ==
    [q0 |-> DictDisplay(<< <<zero, Entry("HALT", one, ActionL)>> >>),
     HALT |-> << >>]

\* test_machine_respects_start_point
StartPointTable ==
    [q0 |-> DictDisplay(<< <<one, Entry("HALT", zero, ActionN)>> >>),
     HALT |-> << >>]

\* test_machine_halts_properly
NoTransitionTable == [q0 |-> << >>]

\* test_custom_action_with_large_move
LargeMoveTable ==
    [q0 |-> DictDisplay(<< <<zero, Entry("HALT", one, R3)>> >>),
     HALT |-> << >>]

\* examples/flip_bit.py
FlipBitTable ==
    [q0 |-> DictDisplay(<< <<zero, Entry("HALT", one, ActionR)>>,
                           <<one, Entry("HALT", zero, ActionN)>> >>),
     HALT |-> << >>]

\* example_binary_increment.py: TapeVar(0) in the third item of q_scan's
\* table is the key zero once more
IncrementTable ==
    [SCAN_RIGHT |-> DictDisplay(<< <<zero, Entry("SCAN_RIGHT", zero, ActionR)>>,
                                   <<one, Entry("SCAN_RIGHT", one, ActionR)>>,
                                   <<zero, Entry("ADD_ONE", zero, ActionL)>> >>),
     ADD_ONE |-> DictDisplay(<< <<zero, Entry("HALT", one, ActionN)>>,
                                <<one, Entry("ADD_ONE", zero, ActionL)>> >>),
     HALT |-> << >>]

\* a custom action that jumps twice the safety limit to the right, built
\* like R3, and the same displacement as a member of an Enum class
FarJump == ActionPrimitive("R2M", 2 * TapeCap)

FarJumpTable ==
    [q0 |-> DictDisplay(<< <<zero, Entry("q0", zero, FarJump)>> >>)]

FarJumpEnumTable ==
    [q0 |-> DictDisplay(<< <<zero, Entry("q0", zero, EnumMember(FarJump))>> >>)]

Scenario(table, start, input_tape, start_point) ==
    [table |-> table, start |-> start, input_tape |-> input_tape,
     start_point |-> start_point]

Scenarios ==
    { Scenario(RightGrowthTable, "q0", <<zero>>, 0),
      Scenario(LeftGrowthTable, "q0", <<zero>>, 0),
      Scenario(StartPointTable, "q0", <<zero, one, zero>>, 1),
      Scenario(NoTransitionTable, "q0", <<zero>>, 0),
      Scenario(LargeMoveTable, "q0", <<zero>>, 0),
      Scenario(FlipBitTable, "q0", <<zero>>, 0),
      Scenario(IncrementTable, "SCAN_RIGHT", <<one, zero, one, one>>, 0),
      Scenario(FarJumpTable, "q0", <<zero>>, 0),
      Scenario(FarJumpEnumTable, "q0", <<zero>>, 0) }

InitScenario ==
    /\ \E sc \in Scenarios, ibh \in BOOLEAN :
          /\ transitions = sc.table
          /\ ValidConstruction(sc.input_tape, sc.start_point)
          /\ tms = [i \in {1} |->
                      StateMachine(sc.start, sc.input_tape, sc.start_point, ibh)]
    /\ tape_obj = [i \in {1} |-> 1]
    /\ last = [i \in {1} |-> NoCall]

(***************************************************************************)
(* Actions: one per call of the embedding API                              *)
(***************************************************************************)
\* machine i has left its list as new_tape: every machine that refers to
\* the same list object sees it
Store(i, tm, new_tape) ==
    [j \in DOMAIN tms |->
        IF j = i THEN tm
        ELSE IF tape_obj[j] = tape_obj[i] THEN [tms[j] EXCEPT !.tape = new_tape]
        ELSE tms[j]]

Step(i) ==
    LET s == step(tms[i], transitions) IN
    /\ tms' = Store(i, s.tm, s.tm.tape)
    /\ last' = [last EXCEPT ![i] = StepCall(s)]
    /\ UNCHANGED <<transitions, tape_obj>>

Run(i, max_steps) ==
    LET r == run(tms[i], transitions, max_steps) IN
    /\ tms' = Store(i, r.tm, r.tm.tape)
    /\ last' = [last EXCEPT ![i] = RunCall(r, max_steps)]
    /\ UNCHANGED <<transitions, tape_obj>>

StepAny == \E i \in DOMAIN tms : Step(i)
RunAny == \E i \in DOMAIN tms : \E max_steps \in 0..MaxSteps : Run(i, max_steps)

Next == StepAny \/ RunAny

Spec == Init /\ [][Next]_vars

\* a machine started on a one-cell list
SpecRun == InitRun /\ [][Next]_vars

\* two machines side by side, their calls interleaved
SpecPair == InitPair /\ [][Next]_vars

\* the machines of the tests and examples
SpecScenario == InitScenario /\ [][Next]_vars

(***************************************************************************)
(* Construction as a call                                                  *)
(***************************************************************************)
\* StateMachine(start, input_tape, start_point, implicit_blank_halt) as the
\* caller sees it: an assert fails and no object is returned, or the object
\* is returned
Construct(start, input_tape, start_point, implicit_blank_halt) ==
    IF ValidConstruction(input_tape, start_point)
    THEN [raised |-> NoExc,
          tm |-> StateMachine(start, input_tape, start_point, implicit_blank_halt)]
    ELSE [raised |-> "AssertionError", tm |-> None]

ConstructCall(c) ==
    [op |-> "__init__", max_steps |-> 0, raised |-> c.raised, ret |-> None,
     steps |-> 0, halted |-> FALSE]

\* the arguments a caller may pass: lists of zero to MaxTapeLen symbols, a
\* start point from one before the list to one past it
NewTapes == UNION { [1..n -> Symbols] : n \in 0..MaxTapeLen }
StartPoints == (0 - 1)..MaxTapeLen

\* no machine yet; the caller holds one list object
InitNew ==
    /\ transitions \in { [q \in States |-> IF q = "q0" THEN r0 ELSE << >>] :
                            r0 \in PartialFns(Symbols, PairEntries) }
    /\ tms = << >>
    /\ tape_obj = [i \in {1} |-> 1]
    /\ last = [i \in {1} |-> NoCall]

\* the caller constructs machine i; after a failed attempt it may try again
New(i, start, input_tape, start_point, implicit_blank_halt) ==
    LET c == Construct(start, input_tape, start_point, implicit_blank_halt) IN
    /\ i \notin DOMAIN tms
    /\ tms' = IF c.raised = NoExc THEN [j \in {i} |-> c.tm] ELSE tms
    /\ last' = [last EXCEPT ![i] = ConstructCall(c)]
    /\ UNCHANGED <<transitions, tape_obj>>

NewAny ==
    \E start \in States, input_tape \in NewTapes, start_point \in StartPoints,
       implicit_blank_halt \in BOOLEAN :
        New(1, start, input_tape, start_point, implicit_blank_halt)

NextNew == NewAny \/ StepAny \/ RunAny

\* a machine from its construction on
SpecNew == InitNew /\ [][NextNew]_vars

(***************************************************************************)
(* Vocabulary of the properties                                            *)
(***************************************************************************)
Machines == DOMAIN tms

\* the cell at logical position pos is part of the list
Materialized(m, pos) == 0 <= pos - m.tape_begin /\ pos - m.tape_begin < Len(m.tape)

\* the symbol at logical position pos
CellAt(m, pos) == m.tape[pos - m.tape_begin + 1]

\* the table entry the next step of machine m looks up, when there is one
HasEntry(m) == /\ m.current \in DOMAIN transitions
               /\ CellAt(m, m.head) \in DOMAIN transitions[m.current]
EntryOf(m) == transitions[m.current][CellAt(m, m.head)]

Max(a, b) == IF a >= b THEN a ELSE b
Min(a, b) == IF a <= b THEN a ELSE b

\* the standard actions are the members of Action; anything else is user-defined
UserDefined(action) == action \notin {ActionR, ActionL, ActionN}
Displacement(action) == IF "value" \in DOMAIN action THEN action.value.d ELSE action.d

\* the list length that makes logical position pos addressable
LengthFor(m, pos) == Len(m.tape) + Max(0, pos - m.tape_begin - Len(m.tape) + 1)
                                 + Max(0, m.tape_begin - pos)

ReturnedTrue(i) == last[i].op = "step" /\ last[i].ret = "True"
ReturnedFalse(i) == last[i].op = "step" /\ last[i].ret = "False"

(***************************************************************************)
(* C1  Tape-index alignment: in every reachable state of a validly         *)
(* constructed machine, 0 <= head - tape_begin < len(tape), so the cell    *)
(* tape[head - tape_begin] exists.                                         *)
(***************************************************************************)
C1_TapeIndexAlignment ==
    \A i \in Machines : Materialized(tms[i], tms[i].head)

\* the head is back right of the origin after the tape has grown leftwards
C1_Witness ==
    \E i \in Machines : /\ ReturnedTrue(i)
                        /\ tms[i].tape_begin < 0
                        /\ tms[i].head > 0

(***************************************************************************)
(* C2  When step finds no transition it returns False and the machine's    *)
(* current state is None afterwards.                                       *)
(***************************************************************************)
C2_HaltSetsCurrentNone ==
    \A i \in Machines : ReturnedFalse(i) => tms[i].current = None

(***************************************************************************)
(* C3  A transition that uses a user-defined action with displacement d    *)
(* is executed like a standard one: step returns True, the head becomes    *)
(* head + d and the tape contains the new head (stated for the steps whose *)
(* growth stays within the safety limit).                                  *)
(***************************************************************************)
C3_CustomActionExecutes ==
    [][\A i \in Machines :
         ( /\ Step(i)
           /\ HasEntry(tms[i])
           /\ UserDefined(EntryOf(tms[i]).action)
           /\ LengthFor(tms[i], tms[i].head + Displacement(EntryOf(tms[i]).action))
                 <= TapeCap )
         => /\ last'[i].ret = "True"
            /\ tms'[i].head = tms[i].head + Displacement(EntryOf(tms[i]).action)
            /\ Materialized(tms'[i], tms'[i].head)]_vars

(***************************************************************************)
(* C4  In every reachable state the tape is at most TapeCap cells long: a  *)
(* step whose growth would exceed the cap aborts instead of adding the     *)
(* cell that exceeds it.                                                   *)
(***************************************************************************)
C4_TapeWithinCap ==
    \A i \in Machines : Len(tms[i].tape) <= TapeCap

(***************************************************************************)
(* C5  run(max_steps=0) performs zero step calls, completes without a      *)
(* failure and leaves tape, head, tape_begin and current as they were.     *)
(***************************************************************************)
C5_RunZeroReturns ==
    [][\A i \in Machines :
         Run(i, 0) => /\ last'[i].raised = NoExc
                      /\ last'[i].steps = 0
                      /\ tms'[i] = tms[i]]_vars

(***************************************************************************)
(* C6  After run returns, the caller can tell a halt from an exhausted     *)
(* step budget: no run that halted and run that used up max_steps leave    *)
(* the same returned tape, returned state and machine fields.              *)
(***************************************************************************)
RunReturned(i) == last[i].op = "run" /\ last[i].raised = NoExc

C6_HaltDistinguishable ==
    \A i, j \in Machines :
        (RunReturned(i) /\ RunReturned(j) /\ tms[i] = tms[j]
           /\ (i = j \/ tape_obj[i] # tape_obj[j]))
        => last[i].halted = last[j].halted

(***************************************************************************)
(* C7  On a step that halts, tape contents, tape length, head and          *)
(* tape_begin are unchanged.                                               *)
(***************************************************************************)
C7_HaltWritesNothing ==
    [][\A i \in Machines :
         (Step(i) /\ last'[i].ret = "False")
         => /\ tms'[i].tape = tms[i].tape
            /\ tms'[i].head = tms[i].head
            /\ tms'[i].tape_begin = tms[i].tape_begin]_vars

\* a halt on a non-blank symbol, after the machine has moved and grown
C7_Witness ==
    \E i \in Machines : /\ ReturnedFalse(i)
                        /\ tms[i].tape_begin < 0
                        /\ CellAt(tms[i], tms[i].head) # BLANK

(***************************************************************************)
(* C8  On a continuing step the written symbol sits at the pre-move        *)
(* logical head position when step returns, and a new head position that   *)
(* was not materialized before the step holds BLANK.                       *)
(***************************************************************************)
C8_WriteAtOldHeadBlankAtNew ==
    [][\A i \in Machines :
         (Step(i) /\ last'[i].ret = "True")
         => /\ Materialized(tms'[i], tms[i].head)
            /\ CellAt(tms'[i], tms[i].head) = EntryOf(tms[i]).new_tv
            /\ ~Materialized(tms[i], tms'[i].head)
                  => CellAt(tms'[i], tms'[i].head) = BLANK]_vars

\* a non-blank symbol written at the origin, then the head moved to a cell
\* that leftward growth has just created
C8_Witness ==
    \E i \in Machines : /\ ReturnedTrue(i)
                        /\ Len(tms[i].tape) = 2
                        /\ tms[i].tape_begin = -1
                        /\ tms[i].head = -1
                        /\ CellAt(tms[i], 0) = "1"
                        /\ CellAt(tms[i], -1) = BLANK

(***************************************************************************)
(* C9  Growth in one continuing step is exactly sufficient: with old       *)
(* length n, old offset b and new head h', the new length is               *)
(* n + max(0, h' - b - n + 1) + max(0, b - h') and the new tape_begin is   *)
(* min(b, h').                                                             *)
(***************************************************************************)
C9_GrowthExactlySufficient ==
    [][\A i \in Machines :
         (Step(i) /\ last'[i].ret = "True")
         => /\ Len(tms'[i].tape) = LengthFor(tms[i], tms'[i].head)
            /\ tms'[i].tape_begin = Min(tms[i].tape_begin, tms'[i].head)]_vars

\* a machine whose only moves are two cells to the left has made exactly
\* one move from a one-cell tape: two cells were prepended
C9_Witness ==
    \E i \in Machines :
        /\ ReturnedTrue(i)
        /\ \A q \in DOMAIN transitions : \A tv \in DOMAIN transitions[q] :
              /\ "value" \in DOMAIN transitions[q][tv].action
              /\ transitions[q][tv].action.value.d = -2
        /\ tms[i].head = -2
        /\ tms[i].tape_begin = -2
        /\ Len(tms[i].tape) = 3

(***************************************************************************)
(* C10  Halted is terminal: once a step call has returned False, every     *)
(* later step call returns False without a failure, and tape, head and     *)
(* tape_begin never change again.                                          *)
(***************************************************************************)
\* the next step call of machine i returns False and changes nothing
StepHalts(i) ==
    LET s == step(tms[i], transitions) IN
    s.raised = NoExc /\ ~s.ret /\ s.tm = tms[i]

C10_HaltedIsTerminal ==
    /\ [](\A i \in Machines : ReturnedFalse(i) => StepHalts(i))
    /\ [][\A i \in Machines :
            StepHalts(i) => /\ StepHalts(i)'
                            /\ tms'[i].tape = tms[i].tape
                            /\ tms'[i].head = tms[i].head
                            /\ tms'[i].tape_begin = tms[i].tape_begin]_vars

\* a step call has returned False after the machine had moved and grown
C10_Witness ==
    \E i \in Machines : /\ ReturnedFalse(i)
                        /\ Len(tms[i].tape) > MaxTapeLen
                        /\ tms[i].head # 0

(***************************************************************************)
(* Step sequences, for the properties of run                               *)
(***************************************************************************)
\* the machine after k calls of step
RECURSIVE After(_, _)
After(m, k) == IF k <= 0 THEN m ELSE After(step(m, transitions).tm, k - 1)

\* the next k calls of step all return True
RECURSIVE Continuing(_, _)
Continuing(m, k) ==
    \/ k <= 0
    \/ LET s == step(m, transitions) IN
       s.raised = NoExc /\ s.ret /\ Continuing(s.tm, k - 1)

\* every action in the tables is a member of an Enum class
AllEnumActions ==
    \A q \in DOMAIN transitions : \A tv \in DOMAIN transitions[q] :
        "value" \in DOMAIN transitions[q][tv].action

\* the run that has just ended made its calls of step one after the other,
\* all but the last of them continuing
RunIsStepPrefix(i) ==
    /\ last'[i].steps <= last'[i].max_steps
    /\ tms'[i] = After(tms[i], last'[i].steps)
    /\ Continuing(tms[i], last'[i].steps - 1)

(***************************************************************************)
(* C11  run(max_steps) calls step at most max_steps times and makes no     *)
(* call after the first step that returns False; a run that ends without   *)
(* a halt has executed exactly max_steps continuing steps.  (Original      *)
(* statement, for tables whose actions are all Enum members.)              *)
(***************************************************************************)
C11_Original ==
    [][\A i \in Machines : \A n \in 0..MaxSteps :
         (Run(i, n) /\ AllEnumActions)
         => /\ RunIsStepPrefix(i)
            /\ last'[i].halted =>
                  ~step(After(tms[i], last'[i].steps - 1), transitions).ret
            /\ ~last'[i].halted =>
                  last'[i].steps = n /\ Continuing(tms[i], n)]_vars

(***************************************************************************)
(* C11 (amended)  run(max_steps) calls step at most max_steps times and    *)
(* makes no call after the first step that returns False or raises; a run  *)
(* in which no step halts or raises has executed exactly max_steps         *)
(* continuing steps, and a run ended by a raising step has executed fewer  *)
(* than max_steps continuing steps.                                        *)
(***************************************************************************)
C11_RunBoundedBySteps ==
    [][\A i \in Machines : \A n \in 0..MaxSteps :
         Run(i, n)
         => /\ RunIsStepPrefix(i)
            /\ last'[i].halted =>
                  ~step(After(tms[i], last'[i].steps - 1), transitions).ret
            /\ (~last'[i].halted /\ last'[i].raised \in {NoExc, "UnboundLocalError"})
                  => last'[i].steps = n /\ Continuing(tms[i], n)
            /\ last'[i].raised \in {"MemoryError", "AttributeError"}
                  => /\ ~last'[i].halted
                     /\ step(After(tms[i], last'[i].steps - 1), transitions).raised
                           = last'[i].raised]_vars

\* a run was cut short by a step that raised MemoryError
C11_Witness ==
    \E i \in Machines : /\ last[i].op = "run"
                        /\ last[i].raised = "MemoryError"
                        /\ last[i].steps < last[i].max_steps
                        /\ AllEnumActions

(***************************************************************************)
(* C12  Budget exhaustion leaves the machine resumable: where no step      *)
(* aborts, run(a) followed by run(b) leaves the same tape, head,           *)
(* tape_begin and current as a single run(a + b).                          *)
(***************************************************************************)
NoStepAborts(r) == r.raised \in {NoExc, "UnboundLocalError"}

C12_RunIsResumable ==
    \A i \in Machines : \A a, b \in 0..MaxSteps :
        LET first == run(tms[i], transitions, a)
            second == run(first.tm, transitions, b)
            single == run(tms[i], transitions, a + b)
        IN  (NoStepAborts(first) /\ NoStepAborts(second) /\ NoStepAborts(single))
            => /\ second.tm.tape = single.tm.tape
               /\ second.tm.head = single.tm.head
               /\ second.tm.tape_begin = single.tm.tape_begin
               /\ second.tm.current = single.tm.current

\* a machine that has run before and from which run(1) uses up its budget,
\* a second run(1) continues, and a third call would halt
C12_Witness ==
    \E i \in Machines :
        /\ last[i].op = "run"
        /\ Continuing(tms[i], 2)
        /\ ~Continuing(tms[i], 3)
        /\ step(After(tms[i], 2), transitions).raised = NoExc
        /\ After(tms[i], 2) # tms[i]

(***************************************************************************)
(* C13  State transition resolution: update returns the halt outcome       *)
(* (next state absent, the symbol read, the head unchanged) exactly when   *)
(* the table has no entry for the symbol, and otherwise the entry's        *)
(* (next_state, write_symbol, action.perform(head)); it raises nothing.    *)
(***************************************************************************)
C13_UpdateResolves ==
    \A i \in Machines : \A q \in DOMAIN transitions :
    \A tv \in Symbols : \A ibh \in BOOLEAN :
        LET head == tms[i].head
            u == update(transitions[q], tv, head, ibh)
        IN  /\ u.raised = NoExc
            /\ tv \notin DOMAIN transitions[q]
                  => u.next_state = None /\ u.new_tv = tv /\ u.new_head = head
            /\ tv \in DOMAIN transitions[q]
                  => /\ u.next_state = transitions[q][tv].next_state
                     /\ u.next_state # None
                     /\ u.new_tv = transitions[q][tv].new_tv
                     /\ u.new_head = head + Displacement(transitions[q][tv].action)

(***************************************************************************)
(* C17  The tape only grows and keeps its content: across any step the     *)
(* length never decreases, tape_begin never increases, and every cell      *)
(* materialized before the step, other than the one at the pre-move head,  *)
(* holds the same symbol at the same logical coordinate afterwards.        *)
(***************************************************************************)
C17_TapeOnlyGrows ==
    [][\A i \in Machines :
         Step(i)
         => /\ Len(tms'[i].tape) >= Len(tms[i].tape)
            /\ tms'[i].tape_begin <= tms[i].tape_begin
            /\ \A pos \in tms[i].tape_begin .. (tms[i].tape_begin + Len(tms[i].tape) - 1) :
                  pos # tms[i].head
                  => /\ Materialized(tms'[i], pos)
                     /\ CellAt(tms'[i], pos) = CellAt(tms[i], pos)]_vars

\* leftward growth by one cell; the non-blank cell right of the origin is
\* still at coordinate 1
C17_Witness ==
    \E i \in Machines : /\ ReturnedTrue(i)
                        /\ tms[i].tape_begin = -1
                        /\ tms[i].head = -1
                        /\ Len(tms[i].tape) = 3
                        /\ CellAt(tms[i], 1) = "1"

(***************************************************************************)
(* C20  The implicit_blank_halt flag has no observable effect: update      *)
(* returns the same result with the flag true as with it false, and a      *)
(* step of two machines that differ only in the flag returns the same      *)
(* value and leaves the same tape, head, tape_begin and current.           *)
(***************************************************************************)
FlagFlipped(m) == [m EXCEPT !.implicit_blank_halt = ~m.implicit_blank_halt]

C20_FlagHasNoEffect ==
    \A i \in Machines :
        /\ \A q \in DOMAIN transitions : \A tv \in Symbols :
              update(transitions[q], tv, tms[i].head, TRUE)
                 = update(transitions[q], tv, tms[i].head, FALSE)
        /\ LET s == step(tms[i], transitions)
               t == step(FlagFlipped(tms[i]), transitions)
           IN  /\ t.raised = s.raised
               /\ t.ret = s.ret
               /\ t.tm = FlagFlipped(s.tm)

\* a machine with the flag set has just halted on a blank that its state
\* has no transition for: the implicit halt and the lookup agree
C20_Witness ==
    \E i \in Machines : /\ ReturnedFalse(i)
                        /\ tms[i].implicit_blank_halt
                        /\ CellAt(tms[i], tms[i].head) = BLANK
                        /\ BLANK \notin DOMAIN transitions[tms[i].current]
                        /\ tms[i].tape_begin < 0

(***************************************************************************)
(* Vocabulary of the scenarios                                             *)
(***************************************************************************)
\* machine i is the freshly constructed machine of a scenario
Fresh(i, start, input_tape, start_point) ==
    /\ last[i].op = "none"
    /\ tms[i] = StateMachine(start, input_tape, start_point,
                             tms[i].implicit_blank_halt)

\* the tape without the blank cells at its two ends
RECURSIVE StripBlanks(_)
StripBlanks(tape) ==
    IF tape = << >> THEN tape
    ELSE IF Head(tape) = BLANK THEN StripBlanks(Tail(tape))
    ELSE IF tape[Len(tape)] = BLANK THEN StripBlanks(SubSeq(tape, 1, Len(tape) - 1))
    ELSE tape

\* a call on machine i has ended in a halt
Halted(i) == ReturnedFalse(i) \/ (last[i].op = "run" /\ last[i].halted)

(***************************************************************************)
(* C14  Left-growth scenario, as claimed: q0 with {0: (halt, 1, Left)},    *)
(* tape [0], start index 0; after one step the tape is [BLANK, 1],         *)
(* head = 0 (logical) and tape_begin = -1.                                 *)
(***************************************************************************)
C14_Original ==
    [][\A i \in Machines :
         (transitions = LeftGrowthTable /\ Fresh(i, "q0", <<zero>>, 0) /\ Step(i))
         => /\ tms'[i].tape = <<BLANK, one>>
            /\ tms'[i].head = 0
            /\ tms'[i].tape_begin = -1]_vars

(***************************************************************************)
(* C14 (amended)  Left-growth scenario: after one step the tape is         *)
(* [BLANK, 1], head = -1 (logical; the physical index head - tape_begin    *)
(* is 0) and tape_begin = -1.                                              *)
(***************************************************************************)
C14_LeftGrowthScenario ==
    [][\A i \in Machines :
         (transitions = LeftGrowthTable /\ Fresh(i, "q0", <<zero>>, 0) /\ Step(i))
         => /\ last'[i].ret = "True"
            /\ tms'[i].tape = <<BLANK, one>>
            /\ tms'[i].head = -1
            /\ tms'[i].head - tms'[i].tape_begin = 0
            /\ tms'[i].tape_begin = -1
            /\ tms'[i].current = "HALT"]_vars

\* the left-growth machine after its one step
C14_Witness ==
    \E i \in Machines : /\ transitions = LeftGrowthTable
                        /\ ReturnedTrue(i)
                        /\ tms[i].current = "HALT"
                        /\ Len(tms[i].tape) = 2

(***************************************************************************)
(* C15  Resource-limit scenario: from a tape of length 1, a step whose     *)
(* custom action displaces the head by twice the safety limit ends in the  *)
(* resource failure: it never returns True and never materializes the      *)
(* cells up to the new head.                                               *)
(***************************************************************************)
C15_FarJumpIsResourceFailure ==
    [][\A i \in Machines :
         (transitions \in {FarJumpTable, FarJumpEnumTable}
            /\ Fresh(i, "q0", <<zero>>, 0) /\ Step(i))
         => /\ last'[i].raised = "MemoryError"
            /\ last'[i].ret # "True"
            /\ Len(tms'[i].tape) < 2 * TapeCap + 1]_vars

(***************************************************************************)
(* C18  Binary-increment scenario: the three-state machine of              *)
(* example_binary_increment.py, started at index 0 on tape [1,0,1,1],      *)
(* halts with the tape [1,1,0,0] (blank cells at the ends not counted).    *)
(***************************************************************************)
C18_IncrementResult ==
    \A i \in Machines :
        (transitions = IncrementTable /\ Halted(i))
        => StripBlanks(tms[i].tape) = <<one, one, zero, zero>>

(***************************************************************************)
(* C16  Machine isolation: a call on one machine never changes a cell,     *)
(* the head, tape_begin or the current state of another machine, so each   *)
(* machine ends an interleaving as if it had run its own calls alone.      *)
(***************************************************************************)
C16_MachinesIsolated ==
    [][\A i \in Machines :
         (Step(i) \/ \E n \in 0..MaxSteps : Run(i, n))
         => \A j \in Machines \ {i} : tms'[j] = tms[j]]_vars

(***************************************************************************)
(* C19: construction fails (AssertionError, no machine) whenever the list  *)
(* is empty or start_point is outside 0 <= start_point < len(input_tape);  *)
(* whenever it succeeds, head = start_point, tape_begin = 0 and current is *)
(* the start state                                                         *)
(***************************************************************************)
C19_ConstructionChecked ==
    [][\A start \in States, input_tape \in NewTapes, start_point \in StartPoints,
          ibh \in BOOLEAN :
          New(1, start, input_tape, start_point, ibh)
          => IF \/ Len(input_tape) = 0
                \/ start_point < 0
                \/ start_point >= Len(input_tape)
             THEN /\ last'[1].raised = "AssertionError"
                  /\ Machines' = {}
             ELSE /\ last'[1].raised = NoExc
                  /\ Machines' = {1}
                  /\ tms'[1].head = start_point
                  /\ tms'[1].tape_begin = 0
                  /\ tms'[1].current = start
                  /\ tms'[1].tape = input_tape]_vars

\* a rejected attempt: the call raised and the caller has no machine
C19_Witness ==
    /\ last[1].op = "__init__"
    /\ last[1].raised = "AssertionError"
    /\ Machines = {}

(***************************************************************************)
(* C21  When a step aborts with MemoryError, head and current are as       *)
(* before the step and 0 <= head - tape_begin < len(tape) still holds      *)
(* (left growth decrements tape_begin with every prepended cell), although *)
(* the symbol has been written under the head and the cells grown so far   *)
(* stay on the tape: every other old cell keeps its logical position.      *)
(***************************************************************************)
C21_AbortKeepsHeadAndState ==
    [][\A i \in Machines :
         (Step(i) /\ last'[i].raised = "MemoryError")
         => /\ tms'[i].head = tms[i].head
            /\ tms'[i].current = tms[i].current
            /\ Materialized(tms'[i], tms'[i].head)
            /\ CellAt(tms'[i], tms[i].head) = EntryOf(tms[i]).new_tv
            /\ Len(tms'[i].tape) >= Len(tms[i].tape)
            /\ tms[i].tape_begin - tms'[i].tape_begin
                  \in {0, Len(tms'[i].tape) - Len(tms[i].tape)}
            /\ \A pos \in (tms[i].tape_begin)..(tms[i].tape_begin + Len(tms[i].tape) - 1) :
                  pos # tms[i].head
                  => CellAt(tms'[i], pos) = CellAt(tms[i], pos)]_vars

\* a step has aborted during leftward growth: the list is one cell past the
\* limit, it begins left of the origin, and the head is still on it
C21_Witness ==
    \E i \in Machines : /\ last[i].op = "step"
                        /\ last[i].raised = "MemoryError"
                        /\ tms[i].tape_begin < 0
                        /\ Len(tms[i].tape) = TapeCap + 1
                        /\ Materialized(tms[i], tms[i].head)
====
